---- MODULE Spec2Model ----
(***************************************************************************)
(* Eureka, Stage 5 light-curve fitting (eureka/S5_lightcurve_fitting/       *)
(* fitters.py): the fitting backends lsqfitter, demcfitter, emceefitter,    *)
(* dynestyfitter and lmfitter, the objective functions they hand to their   *)
(* samplers, and the flat parameter view they build from a composite model. *)
(*                                                                         *)
(* Numbers are exact extended rationals <<n, d>>: d > 0 is the fraction n/d *)
(* in lowest terms, <<1,0>> is +inf, <<-1,0>> is -inf and <<0,0>> is NaN,    *)
(* with the IEEE-754 rules numpy follows.  An uncertainty is kept as its    *)
(* square (unc2), so that sqrt(flux) and the factor sqrt(chi2red) stay      *)
(* exact: unc = sqrt(flux) is unc2 = flux, unc *= sqrt(c) is unc2 *= c.     *)
(***************************************************************************)
EXTENDS Integers, Sequences, FiniteSets, TLC

VARIABLES
    pc,        \* position of the running call: "start", ..., "done", "raised"
    backend,   \* the fitter that was invoked
    meta,      \* the metadata object (run_nwalkers, run_nsteps, run_nburn, run_ndims)
    lc,        \* the light-curve object: time, flux, unc (as unc2), unc_set
    comps,     \* the heap of model components: component id -> its parameters
    model,     \* the input composite model object
    lsq_sol,   \* the object returned by the lsqfitter call
    best_model,\* the object returned by the invoked backend
    loc,       \* locals of the running fitter
    hist,      \* history: the light curve on entry and counts of what has run
    call       \* the last call of a pure function: its arguments and its result

vars == <<pc, backend, meta, lc, comps, model, lsq_sol, best_model, loc, hist, call>>

-----------------------------------------------------------------------------
(* Extended rational arithmetic (numpy float64 semantics, exact values).    *)

RECURSIVE Gcd(_, _)
Gcd(a, b) ==
    IF b = 0 THEN a ELSE Gcd(b, a % b)

Abs(x) ==
    IF x < 0 THEN -x ELSE x

Sgn(x) ==
    IF x > 0 THEN 1 ELSE IF x < 0 THEN -1 ELSE 0

Q(n, d) ==
    IF d = 0 THEN <<Sgn(n), 0>>
    ELSE LET g == Gcd(Abs(n), Abs(d))
             s == Sgn(d)
         IN  <<(s * n) \div g, (s * d) \div g>>

I(n) ==
    <<n, 1>>

NaN ==
    <<0, 0>>

PosInf ==
    <<1, 0>>

NegInf ==
    <<-1, 0>>

IsNaN(a) ==
    a = NaN

IsFinite(a) ==
    a[2] # 0

QNeg(a) ==
    <<-a[1], a[2]>>

QMul(a, b) ==
    IF ~IsFinite(a) \/ ~IsFinite(b) \/ a[1] = 0 \/ b[1] = 0
    THEN Q(a[1] * b[1], a[2] * b[2])
    ELSE LET g == Gcd(Abs(a[1]), b[2])
             h == Gcd(Abs(b[1]), a[2])
         IN  <<(a[1] \div g) * (b[1] \div h), (a[2] \div h) * (b[2] \div g)>>

QRecip(a) ==
    Q(a[2], a[1])

QDiv(a, b) ==
    QMul(a, QRecip(b))

QAdd(a, b) ==
    IF IsNaN(a) \/ IsNaN(b) THEN NaN
    ELSE IF ~IsFinite(a) THEN (IF ~IsFinite(b) /\ b # a THEN NaN ELSE a)
    ELSE IF ~IsFinite(b) THEN b
    ELSE LET g == Gcd(a[2], b[2])
         IN  Q(a[1] * (b[2] \div g) + b[1] * (a[2] \div g), (a[2] \div g) * b[2])

QSub(a, b) ==
    QAdd(a, QNeg(b))

QLt(a, b) ==
    IF IsNaN(a) \/ IsNaN(b) \/ a = b THEN FALSE
    ELSE IF a = NegInf \/ b = PosInf THEN TRUE
    ELSE IF a = PosInf \/ b = NegInf THEN FALSE
    ELSE a[1] * b[2] < b[1] * a[2]

QGt(a, b) ==
    QLt(b, a)

QLe(a, b) ==
    ~IsNaN(a) /\ ~IsNaN(b) /\ (a = b \/ QLt(a, b))

RECURSIVE QSum(_)
QSum(s) ==
    IF s = <<>> THEN I(0) ELSE QAdd(s[1], QSum(Tail(s)))

\* x ** 2
QSq(a) ==
    QMul(a, a)

\* The square of sqrt(a): a for a >= 0, NaN for a < 0 (np.sqrt of a negative).
SqrtSq(a) ==
    IF QLt(a, I(0)) THEN NaN ELSE a

-----------------------------------------------------------------------------
(* Sequences and dictionaries.                                              *)

\* A function over 1..n as the tuple of its values
Tup(f) ==
    f \o <<>>

Range(s) ==
    {s[i] : i \in DOMAIN s}

\* A Python dict as a sequence of [key, val] pairs in insertion order; setting
\* a key that is present keeps its place.
DictSet(d, k, v) ==
    IF \E i \in DOMAIN d : d[i].key = k
    THEN Tup([i \in DOMAIN d |-> IF d[i].key = k THEN [key |-> k, val |-> v] ELSE d[i]])
    ELSE Append(d, [key |-> k, val |-> v])

DictKeys(d) ==
    {d[i].key : i \in DOMAIN d}

-----------------------------------------------------------------------------
(* Parameters.  A component's parameters.dict maps a name to the list       *)
(* param = [value, role, (bounds...)]: param[0] is par[1] here, param[1] is *)
(* par[2], param[2] and param[3] are par[3] and par[4].  A component is the *)
(* sequence of its [name, par] items in insertion order.                    *)

P(name, par) ==
    [name |-> name, par |-> par]

\* all_params: the items of every component, in component order
RECURSIVE AllParams(_, _)
AllParams(cs, components) ==
    IF components = <<>> THEN <<>>
    ELSE cs[Head(components)] \o AllParams(cs, Tail(components))

\* pmin.append / pmax.append of the free branch: the pair appended
BoundsOf(param) ==
    IF Len(param) > 3 THEN <<param[3], param[4]>>
    ELSE <<NegInf, PosInf>>

EmptyView ==
    [freenames |-> <<>>, freepars |-> <<>>, pmin |-> <<>>, pmax |-> <<>>,
     indep_vars |-> <<>>]

\* One pass of "for ii, item in enumerate(all_params)" with every role kept
GroupStepAllRoles(v, item) ==
    LET name == item.name
        param == item.par
    IN  IF param[2] = "independent"
        THEN [v EXCEPT !.indep_vars = DictSet(@, name, param[1])]
        ELSE [v EXCEPT !.freenames = Append(@, name),
                       !.freepars = Append(@, param[1]),
                       !.pmin = Append(@, BoundsOf(param)[1]),
                       !.pmax = Append(@, BoundsOf(param)[2])]

\* One pass of "for ii, item in enumerate(all_params)"
GroupStep(v, item) ==
    LET name == item.name
        param == item.par
    IN  IF param[2] = "free"
        THEN [v EXCEPT !.freenames = Append(@, name),
                       !.freepars = Append(@, param[1]),
                       !.pmin = Append(@, BoundsOf(param)[1]),
                       !.pmax = Append(@, BoundsOf(param)[2])]
        ELSE IF param[2] = "independent"
        THEN [v EXCEPT !.indep_vars = DictSet(@, name, param[1])]
        ELSE v

RECURSIVE GroupParams(_, _)
GroupParams(all_params, v) ==
    IF all_params = <<>> THEN v
    ELSE GroupParams(Tail(all_params), GroupStep(v, Head(all_params)))

\* freenames, freepars, pmin, pmax, indep_vars as the fitters build them
FlatView(cs, components) ==
    GroupParams(AllParams(cs, components), EmptyView)

-----------------------------------------------------------------------------
(* The composite model: update and eval.                                    *)

\* numpy indexing of a length-1 array broadcast against a longer one
Bc(v, i) ==
    IF Len(v) = 1 THEN v[1] ELSE v[i]

\* Model.update(newparams, names) on one component: each named free
\* parameter of the component takes newparams[ii]; other names are skipped.
RECURSIVE UpdateComp(_, _, _, _)
UpdateComp(params, newparams, names, ii) ==
    IF ii > Len(names) THEN params
    ELSE UpdateComp(
            Tup([j \in 1..Len(params) |->
                IF params[j].name = names[ii] /\ params[j].par[2] = "free"
                THEN [params[j] EXCEPT !.par[1] = newparams[ii]]
                ELSE params[j]]),
            newparams, names, ii + 1)

\* CompositeModel.update: every component of the model is updated
ModelUpdate(cs, components, newparams, names) ==
    Tup([c \in 1..Len(cs) |->
        IF c \in Range(components)
        THEN UpdateComp(cs[c], newparams, names, 1)
        ELSE cs[c]])

\* components[0].update
FirstUpdate(cs, components, newparams, names) ==
    [cs EXCEPT ![components[1]] = UpdateComp(@, newparams, names, 1)]

\* A leaf's closed form: its scalar parameters, in order, are the
\* coefficients of 1, t, 1, t, ...
RECURSIVE LeafEval(_, _, _)
LeafEval(params, t, j) ==
    IF params = <<>> THEN I(0)
    ELSE IF Head(params).par[2] = "independent"
    THEN LeafEval(Tail(params), t, j)
    ELSE QAdd(QMul(Head(params).par[1], IF j % 2 = 0 THEN t ELSE I(1)),
              LeafEval(Tail(params), t, j + 1))

RECURSIVE CompositeEval(_, _, _)
CompositeEval(cs, components, t) ==
    IF components = <<>> THEN I(1)
    ELSE QMul(LeafEval(cs[Head(components)], t, 1),
              CompositeEval(cs, Tail(components), t))

\* model.eval(): the composite is the product of its components
ModelEval(cs, components, time) ==
    Tup([i \in 1..Len(time) |-> CompositeEval(cs, components, time[i])])

\* residuals = (lc.flux - model_lc)
Residuals(flux, model_lc) ==
    Tup([i \in 1..Len(flux) |-> QSub(flux[i], model_lc[i])])

\* np.sum((residuals / lc.unc) ** 2)
Chi2(residuals, unc2) ==
    QSum(Tup([i \in 1..Len(residuals) |-> QDiv(QSq(residuals[i]), unc2[i])]))

\* lc.unc = np.sqrt(lc.flux), when lc.unc is None
DefaultUnc(l) ==
    IF l.unc_set THEN l
    ELSE [l EXCEPT !.unc_set = TRUE,
                   !.unc2 = Tup([i \in 1..Len(l.flux) |-> SqrtSq(l.flux[i])])]

-----------------------------------------------------------------------------
(* The objective functions ln_like, lnprior and lnprob that emceefitter and *)
(* dynestyfitter define.  A log-probability is [kind, chi2]: kind "fin" is  *)
(* the finite value -0.5 * (chi2 + sum(log(2 pi unc^2))), whose second term *)
(* depends on lc.unc alone; "neginf", "posinf" and "nan" are the others.    *)

LL(kind, chi2) ==
    [kind |-> kind, chi2 |-> chi2]

LLNegInf ==
    LL("neginf", I(0))

LLZero ==
    LL("zero", I(0))

MaxOf(a, b) ==
    IF a > b THEN a ELSE b

ShapeOK(a, b) ==
    Len(a) = Len(b) \/ Len(a) = 1 \/ Len(b) = 1

\* np.where(theta < pmin)
ILow(theta, pmin) ==
    {i \in 1..MaxOf(Len(theta), Len(pmin)) : QLt(Bc(theta, i), Bc(pmin, i))}

\* np.where(theta > pmax)
IHi(theta, pmax) ==
    {i \in 1..MaxOf(Len(theta), Len(pmax)) : QGt(Bc(theta, i), Bc(pmax, i))}

\* theta[ilow] = pmin[ilow]; theta[ihi] = pmax[ihi]
Clip(theta, pmin, pmax, ilow, ihi) ==
    Tup([i \in 1..Len(theta) |->
        IF i \in ihi THEN pmax[i] ELSE IF i \in ilow THEN pmin[i] ELSE theta[i]])

\* The sum of the terms a[i] + log(2 pi unc[i]^2), times -0.5
LogLikeOf(a, unc2) ==
    IF (\E i \in DOMAIN a : IsNaN(a[i]) \/ IsNaN(unc2[i]))
       \/ ((\E i \in DOMAIN a : a[i] = PosInf \/ unc2[i] = PosInf)
           /\ (\E i \in DOMAIN a : unc2[i] = I(0)))
    THEN LL("nan", I(0))
    ELSE IF \E i \in DOMAIN a : a[i] = PosInf \/ unc2[i] = PosInf THEN LLNegInf
    ELSE IF \E i \in DOMAIN a : unc2[i] = I(0) THEN LL("posinf", I(0))
    ELSE LL("fin", QSum(a))

\* -0.5 * np.sum((residuals / lc.unc) ** 2 + np.log(2.0 * np.pi * lc.unc ** 2))
LogLikeVal(residuals, unc2) ==
    LogLikeOf(Tup([i \in 1..Len(residuals) |-> QDiv(QSq(residuals[i]), unc2[i])]),
              unc2)

\* ln_like_val + lp
LLAdd(v, lp) ==
    IF lp.kind = "zero" THEN v
    ELSE IF v.kind \in {"nan", "posinf"} THEN LL("nan", I(0))
    ELSE LLNegInf

Raised ==
    [raised |-> TRUE, val |-> LL("nan", I(0)), theta |-> <<>>, comps |-> <<>>]

\* ln_like once theta is clipped to th and the model updated to cs1: the
\* likelihood of the updated model, replaced by -inf when rejected
LnLikeAt(l, cs1, m, rejected, th) ==
    [raised |-> FALSE,
     val |-> IF rejected THEN LLNegInf
             ELSE LogLikeVal(Residuals(l.flux, ModelEval(cs1, m.components, l.time)),
                             l.unc2),
     theta |-> th, comps |-> cs1]

\* ln_like with the rejection decided on the clipped theta
LnLikeTestAfterClip(theta, l, cs, m, pmin, pmax, freenames, ilow, ihi) ==
    LnLikeAt(l, ModelUpdate(cs, m.components, Clip(theta, pmin, pmax, ilow, ihi),
                            freenames),
             m,
             ILow(Clip(theta, pmin, pmax, ilow, ihi), pmin)
                 \cup IHi(Clip(theta, pmin, pmax, ilow, ihi), pmax) # {},
             Clip(theta, pmin, pmax, ilow, ihi))

\* ln_like that clips a copy of theta and leaves the caller's array alone
LnLikeClipCopy(theta, l, cs, m, pmin, pmax, freenames, ilow, ihi) ==
    LnLikeAt(l, ModelUpdate(cs, m.components, Clip(theta, pmin, pmax, ilow, ihi),
                            freenames),
             m, ilow \cup ihi # {}, theta)

\* ln_like from "theta[ilow] = pmin[ilow]" on, ilow and ihi being known
LnLikeClip(theta, l, cs, m, pmin, pmax, freenames, ilow, ihi) ==
    IF \/ \E i \in ilow : i > Len(theta) \/ i > Len(pmin)
       \/ \E i \in ihi : i > Len(theta) \/ i > Len(pmax)
       \/ Len(theta) < Len(freenames)
    THEN Raised
    ELSE LnLikeAt(l, ModelUpdate(cs, m.components,
                                 Clip(theta, pmin, pmax, ilow, ihi), freenames),
                  m, ilow \cup ihi # {}, Clip(theta, pmin, pmax, ilow, ihi))

\* ln_like(theta, lc, model, pmin, pmax): the value returned, theta as the
\* caller finds it afterwards, and the components after model.update
LnLike(theta, l, cs, m, pmin, pmax, freenames) ==
    IF ~ShapeOK(theta, pmin) \/ ~ShapeOK(theta, pmax) THEN Raised
    ELSE LnLikeClip(theta, l, cs, m, pmin, pmax, freenames,
                    ILow(theta, pmin), IHi(theta, pmax))

\* lnprior with the bounds themselves excluded
LnPriorStrict(theta, pmin, pmax) ==
    IF \E i \in 1..Len(theta) :
          QLe(theta[i], pmin[i]) \/ QLe(pmax[i], theta[i])
    THEN LLNegInf ELSE LLZero

\* lnprior(theta, pmin, pmax)
LnPrior(theta, pmin, pmax) ==
    IF \E i \in 1..Len(theta) :
          QLt(theta[i], pmin[i]) \/ QGt(theta[i], pmax[i])
    THEN LLNegInf ELSE LLZero

\* lnprob once ln_like has returned r: lnprior sees theta as ln_like left it
LnProbOf(r, pmin, pmax) ==
    IF r.raised \/ Len(r.theta) > Len(pmin) \/ Len(r.theta) > Len(pmax)
    THEN Raised
    ELSE [r EXCEPT !.val = LLAdd(r.val, LnPrior(r.theta, pmin, pmax))]

\* lnprob(theta, lc, model, pmin, pmax)
LnProb(theta, l, cs, m, pmin, pmax, freenames) ==
    LnProbOf(LnLike(theta, l, cs, m, pmin, pmax, freenames), pmin, pmax)

-----------------------------------------------------------------------------
(* Inputs: composite models, light curves and metadata.                     *)

NPoints == 7

MaxPost == 1

MaxIter == 1

\* len(step_size)
StepSizeLen == 6

TimeOf(n) ==
    Tup([i \in 1..n |-> I(i - 1)])

FluxOf(n) ==
    Tup([i \in 1..n |-> I(4 + (i % 2))])

LcChoices ==
    {[time |-> TimeOf(n), flux |-> FluxOf(n), unc_set |-> u,
      unc2 |-> IF u THEN Tup([i \in 1..n |-> I(1)]) ELSE <<>>] :
        n \in {2, NPoints}, u \in BOOLEAN}

\* Two components with three free parameters each
ModelA ==
    [comps |-> << <<P("p1", <<I(1), "free", I(0), I(2)>>),
                    P("p2", <<I(0), "free">>),
                    P("p3", <<I(1), "free", I(0)>>)>>,
                  <<P("p4", <<I(1), "free", I(0), I(2)>>),
                    P("p5", <<I(0), "free", I(0), I(2)>>),
                    P("p6", <<I(1), "free">>)>> >>,
     components |-> <<1, 2>>]

\* Free, fixed and independent parameters, bounds given, half given, absent
ModelB ==
    [comps |-> << <<P("rp", <<I(1), "free", I(0), I(2)>>),
                    P("per", <<I(0), "fixed", I(0), I(3)>>),
                    P("time", <<TimeOf(2), "independent">>)>>,
                  <<P("c0", <<I(1), "free">>),
                    P("c1", <<I(0), "free", I(0)>>),
                    P("time", <<TimeOf(3), "independent">>)>> >>,
     components |-> <<1, 2>>]

\* One free parameter
ModelC ==
    [comps |-> << <<P("c0", <<I(1), "free", I(0), I(2)>>),
                    P("c1", <<I(0), "fixed">>)>> >>,
     components |-> <<1>>]

\* Two components that both name a free parameter c0
ModelD ==
    [comps |-> << <<P("c0", <<I(1), "free", I(0), I(2)>>)>>,
                  <<P("c0", <<I(2), "free", I(0), I(3)>>),
                    P("t", <<TimeOf(2), "independent">>)>> >>,
     components |-> <<1, 2>>]

\* Two components with the same three free parameter names: six free
\* parameters, as many as emceefitter has step sizes (it is given to that
\* backend alone, with a light curve of NPoints points and lc.unc set)
ModelE ==
    [comps |-> << <<P("p1", <<I(1), "free", I(0), I(2)>>),
                    P("p2", <<I(0), "free">>),
                    P("p3", <<I(1), "free", I(0)>>)>>,
                  <<P("p1", <<I(1), "free", I(0), I(2)>>),
                    P("p2", <<I(0), "free", I(0), I(2)>>),
                    P("p3", <<I(1), "free">>)>> >>,
     components |-> <<1, 2>>]

ModelChoices ==
    {ModelA, ModelB, ModelC, ModelD, ModelE}

Backends ==
    {"lsqfitter", "demcfitter", "emceefitter", "dynestyfitter", "lmfitter"}

\* run_nwalkers, run_nsteps, run_nburn, run_ndims, run_nlive and whether the
\* keyword arguments carry run_verbose
MetaChoices(b, k) ==
    {[run_nwalkers |-> 2, run_nsteps |-> 2, run_nburn |-> 1, run_nlive |-> 2,
      run_ndims |-> d, run_verbose |-> v] :
        d \in (IF b = "dynestyfitter" THEN {k, 1} ELSE {k}),
        v \in (IF b = "lmfitter" THEN BOOLEAN ELSE {FALSE})}

\* Offsets of the vectors an optimizer or a sampler is seen to produce
Offsets(k) ==
    {Tup([i \in 1..k |-> I(0)]),
     Tup([i \in 1..k |-> IF i = 1 THEN I(1) ELSE I(0)]),
     Tup([i \in 1..k |-> IF i = k THEN I(-1) ELSE I(0)]),
     Tup([i \in 1..k |-> IF i = 1 THEN I(1) ELSE IF i = k THEN I(-1) ELSE I(0)])}

\* Offset of the vector a caller passes to update after the return
PostOffsets(k) ==
    {Tup([i \in 1..k |-> IF i = k THEN I(-1) ELSE IF i = 1 THEN I(1) ELSE I(0)])}

VAdd(a, b) ==
    Tup([i \in 1..MaxOf(Len(a), Len(b)) |-> QAdd(Bc(a, i), Bc(b, i))])

InBox(v, pmin, pmax) ==
    \A i \in 1..MaxOf(Len(v), Len(pmin)) :
        QLe(Bc(pmin, i), Bc(v, i)) /\ QLe(Bc(v, i), Bc(pmax, i))

\* lsq.minimize(lc, model, freepars, pmin, pmax, freenames, indep_vars)[0]:
\* a vector of the box, one value per free parameter
LsqMinimize(view) ==
    {v \in {VAdd(view.freepars, o) : o \in Offsets(Len(view.freepars))} :
        InBox(v, view.pmin, view.pmax)}

-----------------------------------------------------------------------------
(* Model objects.  An object holds the list of its components (ids into     *)
(* comps) and the attributes chi2red and fit_params once they are set.      *)

Obj(components) ==
    [components |-> components, has_fit |-> FALSE, chi2red |-> NaN,
     fit_params |-> <<>>]

NoResult ==
    [ret |-> "none", obj |-> Obj(<<>>)]

\* a copy that owns copies of its components
DeepCopyModel(m, cs) ==
    [obj |-> [m EXCEPT !.components =
                 Tup([i \in 1..Len(m.components) |-> Len(cs) + i])],
     comps |-> cs \o Tup([i \in 1..Len(m.components) |-> cs[m.components[i]]])]

\* copy.copy(model): a new object whose attributes are those of model, the
\* components list included
CopyModel(m, cs) ==
    [obj |-> m, comps |-> cs]

\* best_model.components[0].update(fit_params, freenames);
\* model.update(fit_params, freenames), c being the copy
MakeBestOf(m, c, fit_params, freenames) ==
    [obj |-> c.obj,
     comps |-> ModelUpdate(FirstUpdate(c.comps, c.obj.components, fit_params,
                                       freenames),
                           m.components, fit_params, freenames)]

\* best_model = copy.copy(model); best_model.components[0].update(...);
\* model.update(fit_params, freenames)
MakeBest(m, cs, fit_params, freenames) ==
    MakeBestOf(m, CopyModel(m, cs), fit_params, freenames)

\* lc.unc *= np.sqrt(chi2red), with the square root left out
RescaleNoSqrt(l, chi2red) ==
    [l EXCEPT !.unc2 = Tup([i \in 1..Len(l.unc2) |-> QMul(l.unc2[i], QSq(chi2red))])]

\* lc.unc *= np.sqrt(lsq_sol.chi2red)
Rescale(l, chi2red) ==
    [l EXCEPT !.unc2 = Tup([i \in 1..Len(l.unc2) |-> QMul(l.unc2[i], SqrtSq(chi2red))])]

\* The values a caller reads through an object: per component, the par
\* lists of its parameters
ParamsOf(cs, components) ==
    Tup([i \in 1..Len(components) |-> cs[components[i]]])

-----------------------------------------------------------------------------
(* The fitting backends.                                                    *)

NoLoc ==
    [view |-> EmptyView, pos |-> <<>>, chain |-> <<>>, step |-> 0, w |-> 0,
     samples |-> <<>>, fit_params |-> <<>>, chi2red |-> NaN, uncertainty |-> <<>>]

NoCall ==
    [fn |-> "none", theta_in |-> <<>>, theta_out |-> <<>>, pmin |-> <<>>,
     pmax |-> <<>>, raised |-> FALSE, val |-> LLZero]

Init ==
    /\ pc = "start"
    /\ backend \in Backends
    /\ lc \in LcChoices
    /\ \E mc \in ModelChoices :
          /\ mc = ModelE => /\ backend = "emceefitter"
                          /\ lc.unc_set
                          /\ Len(lc.time) = NPoints
          /\ comps = mc.comps
          /\ model = Obj(mc.components)
          /\ meta \in MetaChoices(backend,
                                  Len(FlatView(mc.comps, mc.components).freenames))
    /\ lsq_sol = NoResult
    /\ best_model = NoResult
    /\ loc = NoLoc
    /\ hist = [lc0 |-> lc, nlsq |-> 0, nevals |-> 0, nscale |-> 0, post |-> 0,
               last |-> "none", evals_before_lsq |-> 0]
    /\ call = NoCall

\* chi2 = np.sum((residuals / lc.unc) ** 2) of the updated model
Chi2Of(l, cs, m) ==
    Chi2(Residuals(l.flux, ModelEval(cs, m.components, l.time)), l.unc2)

\* lsqfitter dividing chi2 by the number of points
LsqResultDivN(lc1, best, m, view, fit_params) ==
    [lc |-> lc1, comps |-> best.comps,
     obj |-> [best.obj EXCEPT
                 !.has_fit = TRUE,
                 !.chi2red = QDiv(Chi2Of(lc1, best.comps, m), I(Len(lc1.unc2))),
                 !.fit_params = fit_params]]

\* lsqfitter from the residuals on: what it leaves and what it returns
LsqResult(lc1, best, m, view, fit_params) ==
    [lc |-> lc1, comps |-> best.comps,
     obj |-> [best.obj EXCEPT
                 !.has_fit = TRUE,
                 !.chi2red = QDiv(Chi2Of(lc1, best.comps, m),
                                  I(Len(lc1.unc2) - Len(view.freenames))),
                 !.fit_params = fit_params]]

\* lsqfitter after lsq.minimize has returned fit_params: the light curve,
\* the components and the object returned
LsqBody(l, cs, m, view, fit_params) ==
    LsqResult(DefaultUnc(l), MakeBest(m, cs, fit_params, view.freenames), m, view,
              fit_params)

\* emceefitter and dynestyfitter going on without the least-squares run
LsqfitterSkipped ==
    /\ pc = "start"
    /\ backend \in {"lsqfitter", "emceefitter", "dynestyfitter"}
    /\ \E view \in {FlatView(comps, model.components)} :
          \E r \in {[ret |-> "model",
                     obj |-> [model EXCEPT !.has_fit = TRUE, !.chi2red = I(1),
                                           !.fit_params = view.freepars]]} :
             /\ lsq_sol' = IF backend = "lsqfitter" THEN lsq_sol ELSE r
             /\ best_model' = IF backend = "lsqfitter" THEN r ELSE best_model
             /\ loc' = [loc EXCEPT !.view = view, !.fit_params = view.freepars]
    /\ lc' = DefaultUnc(lc)
    /\ pc' = IF backend = "lsqfitter" THEN "done" ELSE "rescale"
    /\ hist' = [hist EXCEPT !.last = "lsqfitter"]
    /\ UNCHANGED <<backend, meta, comps, model, call>>

\* lsqfitter(lc, model, meta), called by the user or by emceefitter and
\* dynestyfitter as their first statement
Lsqfitter ==
    /\ pc = "start"
    /\ backend \in {"lsqfitter", "emceefitter", "dynestyfitter"}
    /\ \E view \in {FlatView(comps, model.components)} :
          \E fit_params \in LsqMinimize(view) :
             \E r \in {LsqBody(lc, comps, model, view, fit_params)} :
                /\ lc' = r.lc
                /\ comps' = r.comps
                /\ lsq_sol' = IF backend = "lsqfitter" THEN lsq_sol
                              ELSE [ret |-> "model", obj |-> r.obj]
                /\ best_model' = IF backend = "lsqfitter"
                                 THEN [ret |-> "model", obj |-> r.obj]
                                 ELSE best_model
                /\ pc' = IF backend = "lsqfitter" THEN "done" ELSE "rescale"
                /\ loc' = [loc EXCEPT !.view = view, !.fit_params = fit_params]
    /\ hist' = [hist EXCEPT !.nlsq = @ + 1, !.last = "lsqfitter"]
    /\ UNCHANGED <<backend, meta, model, call>>

\* demcfitter taken for an implemented backend: it sets the default
\* uncertainty and returns the input model as the fit
DemcfitterImplemented ==
    /\ pc = "start"
    /\ backend = "demcfitter"
    /\ lc' = DefaultUnc(lc)
    /\ best_model' = [ret |-> "model", obj |-> model]
    /\ pc' = "done"
    /\ hist' = [hist EXCEPT !.last = "demcfitter"]
    /\ UNCHANGED <<backend, meta, comps, model, lsq_sol, loc, call>>

\* demcfitter(lc, model, meta): best_model = None; return best_model
Demcfitter ==
    /\ pc = "start"
    /\ backend = "demcfitter"
    /\ best_model' = [ret |-> "None", obj |-> Obj(<<>>)]
    /\ pc' = "done"
    /\ hist' = [hist EXCEPT !.last = "demcfitter"]
    /\ UNCHANGED <<backend, meta, lc, comps, model, lsq_sol, loc, call>>

\* After the backend has returned, the caller updates the input model
UpdateInput ==
    /\ pc = "done"
    /\ best_model.ret = "model"
    /\ hist.post < MaxPost
    /\ \E view \in {FlatView(comps, model.components)} :
          \E o \in PostOffsets(Len(view.freenames)) :
             comps' = ModelUpdate(comps, model.components,
                                  VAdd(view.freepars, o), view.freenames)
    /\ hist' = [hist EXCEPT !.post = @ + 1, !.last = "UpdateInput"]
    /\ UNCHANGED <<pc, backend, meta, lc, model, lsq_sol, best_model, loc, call>>

\* After the backend has returned, the caller updates the returned model
UpdateBest ==
    /\ pc = "done"
    /\ best_model.ret = "model"
    /\ hist.post < MaxPost
    /\ \E view \in {FlatView(comps, best_model.obj.components)} :
          \E o \in PostOffsets(Len(view.freenames)) :
             comps' = ModelUpdate(comps, best_model.obj.components,
                                  VAdd(view.freepars, o), view.freenames)
    /\ hist' = [hist EXCEPT !.post = @ + 1, !.last = "UpdateBest"]
    /\ UNCHANGED <<pc, backend, meta, lc, model, lsq_sol, best_model, loc, call>>

RECURSIVE Insert(_, _)
Insert(x, s) ==
    IF s = <<>> THEN <<x>>
    ELSE IF QLe(x, s[1]) THEN <<x>> \o s
    ELSE <<s[1]>> \o Insert(x, Tail(s))

RECURSIVE SortQ(_)
SortQ(s) ==
    IF s = <<>> THEN s ELSE Insert(s[1], SortQ(Tail(s)))

\* the middle of a sorted sample
MedianSorted(s) ==
    IF Len(s) % 2 = 1 THEN s[(Len(s) + 1) \div 2]
    ELSE QDiv(QAdd(s[Len(s) \div 2], s[Len(s) \div 2 + 1]), I(2))

\* np.percentile(x, 50)
Median(x) ==
    IF x = <<>> \/ \E i \in DOMAIN x : IsNaN(x[i]) THEN NaN
    ELSE MedianSorted(SortQ(x))

RECURSIVE Flatten(_)
Flatten(ss) ==
    IF ss = <<>> THEN <<>> ELSE Head(ss) \o Flatten(Tail(ss))

RECURSIVE FilterInBox(_, _, _)
FilterInBox(pos, pmin, pmax) ==
    IF pos = <<>> THEN <<>>
    ELSE (IF InBox(Head(pos), pmin, pmax) THEN <<Head(pos)>> ELSE <<>>)
         \o FilterInBox(Tail(pos), pmin, pmax)

\* freepars + step_size * np.random.randn(ndim)
Draws(freepars) ==
    {VAdd(freepars, o) : o \in Offsets(StepSizeLen)}

\* chi2 divided by the degrees of freedom, as lsqfitter divides it
Chi2RedDof(l, cs, m) ==
    QDiv(Chi2Of(l, cs, m),
         I(Len(l.unc2) - Len(FlatView(cs, m.components).freenames)))

\* the local chi2red of emceefitter and dynestyfitter: chi2 / len(lc.unc)
Chi2RedN(l, cs, m) ==
    QDiv(Chi2Of(l, cs, m), I(Len(l.unc2)))

\* What a call of an objective function is remembered by
CallOf(fn, theta, v, r) ==
    [fn |-> fn, theta_in |-> theta, theta_out |-> r.theta, pmin |-> v.pmin,
     pmax |-> v.pmax, raised |-> r.raised, val |-> r.val]

\* emceefitter from the rescaling to the drawing of the walkers' positions
EmceeSetup ==
    /\ pc = "rescale"
    /\ backend = "emceefitter"
    /\ \E view \in {FlatView(comps, model.components)} :
          /\ lc' = Rescale(lc, lsq_sol.obj.chi2red)
          /\ comps' = ModelUpdate(comps, model.components,
                                  lsq_sol.obj.fit_params, view.freenames)
          /\ IF Len(view.freepars) # StepSizeLen /\ Len(view.freepars) # 1
             THEN /\ pc' = "raised"
                  /\ loc' = [loc EXCEPT !.view = view]
             ELSE \E pos \in [1..meta.run_nwalkers -> Draws(view.freepars)] :
                     /\ pc' = "filter"
                     /\ loc' = [loc EXCEPT !.view = view, !.pos = Tup(pos)]
    /\ hist' = [hist EXCEPT !.nscale = @ + 1, !.last = "EmceeSetup"]
    /\ UNCHANGED <<backend, meta, model, lsq_sol, best_model, call>>

\* emceefitter from out_of_range to the construction of the sampler; an
\* ensemble of no walker cannot be run (sampler.run_mcmc raises)
EmceeFilter ==
    /\ pc = "filter"
    /\ \E kept \in {FilterInBox(loc.pos, loc.view.pmin, loc.view.pmax)} :
          /\ pc' = IF kept = <<>> THEN "raised" ELSE "mcmc"
          /\ loc' = [loc EXCEPT !.pos = kept,
                                !.chain = Tup([i \in 1..Len(kept) |-> <<>>]),
                                !.step = 0, !.w = 1]
    /\ hist' = [hist EXCEPT !.last = "EmceeFilter"]
    /\ UNCHANGED <<backend, meta, lc, comps, model, lsq_sol, best_model, call>>

\* The sampler's state after walker w has been handled at this step
Advance(l, pos1, nsteps) ==
    [l EXCEPT !.pos = pos1,
              !.chain = IF l.w = Len(l.pos) /\ l.step > 0
                        THEN Tup([i \in 1..Len(pos1) |-> Append(l.chain[i], pos1[i])])
                        ELSE l.chain,
              !.step = IF l.w = Len(l.pos) THEN l.step + 1 ELSE l.step,
              !.w = IF l.w = Len(l.pos) THEN 1 ELSE l.w + 1]

\* One call of lnprob by the ensemble sampler: at step 0 for a walker's
\* initial position, afterwards for a proposal, which may be accepted
EmceeEval ==
    /\ pc = "mcmc"
    /\ \E theta \in (IF loc.step = 0 THEN {loc.pos[loc.w]}
                     ELSE Draws(loc.view.freepars)) :
          \E r \in {LnProb(theta, lc, comps, model, loc.view.pmin, loc.view.pmax,
                           loc.view.freenames)} :
             /\ call' = CallOf("lnprob", theta, loc.view, r)
             /\ IF r.raised
                THEN /\ pc' = "raised"
                     /\ UNCHANGED <<comps, loc>>
                ELSE /\ comps' = r.comps
                     /\ \E acc \in (IF loc.step > 0 /\ r.val.kind = "fin"
                                    THEN BOOLEAN ELSE {FALSE}) :
                           \E l1 \in {Advance(loc,
                                              IF acc THEN [loc.pos EXCEPT ![loc.w] = r.theta]
                                              ELSE loc.pos,
                                              meta.run_nsteps)} :
                              \E rejects \in (IF r.val.kind = "nan" THEN BOOLEAN
                                              ELSE {FALSE}) :
                                 /\ loc' = IF rejects THEN loc ELSE l1
                                 /\ pc' = IF rejects THEN "raised"
                                          ELSE IF l1.step > meta.run_nsteps
                                          THEN "emcee_fin" ELSE "mcmc"
    /\ hist' = [hist EXCEPT !.nevals = @ + 1, !.last = "EmceeEval",
                            !.evals_before_lsq = @ + (IF hist.nlsq = 0 THEN 1 ELSE 0)]
    /\ UNCHANGED <<backend, meta, lc, model, lsq_sol, best_model>>

\* the whole chain flattened, burn-in included
SamplesOfWholeChain(chain, burn_in) ==
    Flatten(chain)

\* samples = sampler.chain[:, burn_in::1, :].reshape((-1, ndim))
SamplesOf(chain, burn_in) ==
    Flatten(Tup([i \in 1..Len(chain) |-> SubSeq(chain[i], burn_in + 1, Len(chain[i]))]))

\* the median of each of the first n columns of samples
Medians(samples, n) ==
    Tup([i \in 1..n |-> Median(Tup([j \in 1..Len(samples) |-> samples[j][i]]))])

\* emceefitter from sampler.chain to the return
EmceeFinish ==
    /\ pc = "emcee_fin"
    /\ \E samples \in {SamplesOf(loc.chain, meta.run_nburn)} :
          \E medians \in {Medians(samples, StepSizeLen)} :
             \E best \in {MakeBest(model, comps, medians, loc.view.freenames)} :
                /\ comps' = best.comps
                /\ best_model' = [ret |-> "model", obj |-> best.obj]
                /\ loc' = [loc EXCEPT !.samples = samples, !.fit_params = medians,
                                      !.chi2red = Chi2RedN(lc, best.comps, model)]
    /\ pc' = "done"
    /\ hist' = [hist EXCEPT !.last = "EmceeFinish"]
    /\ UNCHANGED <<backend, meta, lc, model, lsq_sol, call>>

\* dynestyfitter from the rescaling to the construction of the sampler
DynestySetup ==
    /\ pc = "rescale"
    /\ backend = "dynestyfitter"
    /\ \E view \in {FlatView(comps, model.components)} :
          /\ comps' = ModelUpdate(comps, model.components,
                                  lsq_sol.obj.fit_params, view.freenames)
          /\ loc' = [loc EXCEPT !.view = view, !.chain = <<>>, !.step = 0]
    /\ lc' = Rescale(lc, lsq_sol.obj.chi2red)
    /\ pc' = "nested"
    /\ hist' = [hist EXCEPT !.nscale = @ + 1, !.last = "DynestySetup"]
    /\ UNCHANGED <<backend, meta, model, lsq_sol, best_model, call>>

\* transform_uniform(x, a, b)
TransformUniform(x, a, b) ==
    QAdd(a, QMul(QSub(b, a), x))

\* ptform(theta), theta a point of the unit cube
Ptform(theta, pmin, pmax) ==
    Tup([i \in 1..Len(theta) |-> TransformUniform(theta[i], pmin[i], pmax[i])])

\* Points of the unit cube of dimension n
UnitDraws(n) ==
    {Tup([i \in 1..n |-> x]) : x \in {I(0), Q(1, 2), I(1)}}

\* One point drawn by the nested sampler: ptform, then lnprob.  The first
\* nlive points are the live points; a later one may replace a live point.
DynestyEval ==
    /\ pc = "nested"
    /\ \E u \in UnitDraws(meta.run_ndims) :
          \E theta \in {Ptform(u, loc.view.pmin, loc.view.pmax)} :
             \E r \in {LnProb(theta, lc, comps, model, loc.view.pmin,
                              loc.view.pmax, loc.view.freenames)} :
                /\ call' = CallOf("lnprob", theta, loc.view, r)
                /\ IF r.raised
                   THEN /\ pc' = "raised"
                        /\ UNCHANGED <<comps, loc>>
                   ELSE /\ comps' = r.comps
                        /\ \E acc \in (IF loc.step >= meta.run_nlive
                                       THEN BOOLEAN ELSE {TRUE}) :
                              \E rejects \in (IF r.val.kind = "nan" THEN BOOLEAN
                                              ELSE {FALSE}) :
                                 /\ loc' = IF rejects THEN loc
                                           ELSE [loc EXCEPT
                                                   !.chain = IF acc THEN Append(@, r.theta)
                                                             ELSE @,
                                                   !.step = @ + 1]
                                 /\ pc' = IF rejects THEN "raised"
                                          ELSE IF loc.step + 1 >= meta.run_nlive + MaxIter
                                          THEN "dynesty_fin" ELSE "nested"
    /\ hist' = [hist EXCEPT !.nevals = @ + 1, !.last = "DynestyEval",
                            !.evals_before_lsq = @ + (IF hist.nlsq = 0 THEN 1 ELSE 0)]
    /\ UNCHANGED <<backend, meta, lc, model, lsq_sol, best_model>>

\* resample_equal(res.samples, weights): as many samples, each one of them
Resamples(samples) ==
    {samples} \cup {Tup([i \in 1..Len(samples) |-> x]) : x \in Range(samples)}

\* dynestyfitter from sampler.results to the return
DynestyFinish ==
    /\ pc = "dynesty_fin"
    /\ \E samples \in Resamples(loc.chain) :
          \E medians \in {Medians(samples, Len(loc.view.freenames))} :
             \E best \in {MakeBest(model, comps, medians, loc.view.freenames)} :
                /\ comps' = best.comps
                /\ best_model' = [ret |-> "model", obj |-> best.obj]
                /\ loc' = [loc EXCEPT !.samples = samples, !.fit_params = medians,
                                      !.chi2red = Chi2RedN(lc, best.comps, model)]
    /\ pc' = "done"
    /\ hist' = [hist EXCEPT !.last = "DynestyFinish"]
    /\ UNCHANGED <<backend, meta, lc, model, lsq_sol, call>>

\* lmfitter up to "result = lcmodel.fit(lc.flux, weights=1/uncertainty, ...)":
\* uncertainty is bound only when lc.unc is None
LmStart ==
    /\ pc = "start"
    /\ backend = "lmfitter"
    /\ pc' = IF lc.unc_set THEN "raised" ELSE "lmfit"
    /\ loc' = [loc EXCEPT !.view = FlatView(comps, model.components), !.step = 0,
                          !.uncertainty = IF lc.unc_set THEN @
                                          ELSE Tup([i \in DOMAIN lc.flux |-> I(1)])]
    /\ hist' = [hist EXCEPT !.last = "LmStart"]
    /\ UNCHANGED <<backend, meta, lc, comps, model, lsq_sol, best_model, call>>

\* One evaluation of model.eval by lcmodel.fit
LmEval ==
    /\ pc = "lmfit"
    /\ loc.step < MaxIter + 1
    /\ loc' = [loc EXCEPT !.step = @ + 1]
    /\ call' = [NoCall EXCEPT !.fn = "eval"]
    /\ hist' = [hist EXCEPT !.nevals = @ + 1, !.last = "LmEval",
                            !.evals_before_lsq = @ + (IF hist.nlsq = 0 THEN 1 ELSE 0)]
    /\ UNCHANGED <<pc, backend, meta, lc, comps, model, lsq_sol, best_model>>

\* lmfitter from "if kwargs['run_verbose'][0]" to the return
LmFinish ==
    /\ pc = "lmfit"
    /\ loc.step >= 1
    /\ IF ~meta.run_verbose
       THEN /\ pc' = "raised"
            /\ UNCHANGED <<comps, best_model>>
       ELSE \E c \in {CopyModel(model, comps)} :
               /\ pc' = "done"
               /\ comps' = c.comps
               /\ best_model' = [ret |-> "model", obj |-> c.obj]
    /\ hist' = [hist EXCEPT !.last = "LmFinish"]
    /\ UNCHANGED <<backend, meta, lc, model, lsq_sol, loc, call>>

Next ==
    \/ Lsqfitter
    \/ Demcfitter
    \/ EmceeSetup
    \/ EmceeFilter
    \/ EmceeEval
    \/ EmceeFinish
    \/ DynestySetup
    \/ DynestyEval
    \/ DynestyFinish
    \/ LmStart
    \/ LmEval
    \/ LmFinish
    \/ UpdateInput
    \/ UpdateBest

Spec ==
    Init /\ [][Next]_vars

-----------------------------------------------------------------------------
(* The objective functions on their own: ln_like, lnprior and lnprob called  *)
(* with vectors of the length of the flat view, inside and outside the box.  *)

\* The values a component of theta takes
ThetaValues ==
    {I(-1), I(0), I(1), I(2), I(3), I(4)}

Thetas(k) ==
    [1..k -> ThetaValues]

InitObj ==
    /\ pc = "objective"
    /\ backend \in {"emceefitter", "dynestyfitter"}
    /\ \E mc \in {ModelB, ModelC, ModelD} :
          /\ comps = mc.comps
          /\ model = Obj(mc.components)
          /\ loc = [NoLoc EXCEPT !.view = FlatView(mc.comps, mc.components)]
          /\ meta \in MetaChoices("emceefitter",
                                  Len(FlatView(mc.comps, mc.components).freenames))
    /\ lc \in {l \in LcChoices : l.unc_set}
    /\ lsq_sol = NoResult
    /\ best_model = NoResult
    /\ hist = [lc0 |-> lc, nlsq |-> 0, nevals |-> 0, nscale |-> 0, post |-> 0,
               last |-> "none", evals_before_lsq |-> 0]
    /\ call = NoCall

\* ln_like(theta, lc, model, pmin, pmax)
ObjLnLike ==
    /\ pc = "objective"
    /\ pc' = "called"
    /\ \E theta \in Thetas(Len(loc.view.freenames)) :
          \E r \in {LnLike(theta, lc, comps, model, loc.view.pmin, loc.view.pmax,
                           loc.view.freenames)} :
             /\ call' = CallOf("ln_like", theta, loc.view, r)
             /\ comps' = IF r.raised THEN comps ELSE r.comps
    /\ hist' = [hist EXCEPT !.last = "ln_like"]
    /\ UNCHANGED <<backend, meta, lc, model, lsq_sol, best_model, loc>>

\* lnprior(theta, pmin, pmax)
ObjLnPrior ==
    /\ pc = "objective"
    /\ pc' = "called"
    /\ \E theta \in Thetas(Len(loc.view.freenames)) :
          call' = CallOf("lnprior", theta, loc.view,
                         [raised |-> FALSE, theta |-> theta,
                          val |-> LnPrior(theta, loc.view.pmin, loc.view.pmax)])
    /\ hist' = [hist EXCEPT !.last = "lnprior"]
    /\ UNCHANGED <<backend, meta, lc, comps, model, lsq_sol, best_model, loc>>

\* lnprob(theta, lc, model, pmin, pmax)
ObjLnProb ==
    /\ pc = "objective"
    /\ pc' = "called"
    /\ \E theta \in Thetas(Len(loc.view.freenames)) :
          \E r \in {LnProb(theta, lc, comps, model, loc.view.pmin, loc.view.pmax,
                           loc.view.freenames)} :
             /\ call' = CallOf("lnprob", theta, loc.view, r)
             /\ comps' = IF r.raised THEN comps ELSE r.comps
    /\ hist' = [hist EXCEPT !.last = "lnprob"]
    /\ UNCHANGED <<backend, meta, lc, model, lsq_sol, best_model, loc>>

NextObj ==
    \/ ObjLnLike
    \/ ObjLnPrior
    \/ ObjLnProb

SpecObj ==
    InitObj /\ [][NextObj]_vars

-----------------------------------------------------------------------------
(* The flat parameter view on its own, over composites of one or two         *)
(* components whose parameters take every role and every shape of bounds.    *)

\* param lists: free with both bounds, with one, with none; fixed; independent
ParChoices ==
    <<<<I(1), "free", I(0), I(2)>>, <<I(2), "free", I(0)>>, <<I(3), "free">>,
      <<I(4), "fixed", I(0), I(5)>>, <<TimeOf(2), "independent">>>>

\* parameters.dict of a component: at most one item per name, in the order
\* of insertion; i and j choose the param lists, 0 for an absent name
ComponentOf(names, i, j) ==
    (IF i = 0 THEN <<>> ELSE <<P(names[1], ParChoices[i])>>)
        \o (IF j = 0 THEN <<>> ELSE <<P(names[2], ParChoices[j])>>)

InitFlat ==
    /\ pc = "flat"
    /\ backend \in {"lsqfitter", "emceefitter", "dynestyfitter"}
    /\ \E n1 \in {<<"a", "b">>, <<"b", "a">>}, i1, j1 \in 0..Len(ParChoices) :
          \/ /\ comps = <<ComponentOf(n1, i1, j1)>>
             /\ model = Obj(<<1>>)
          \/ \E i2, j2 \in 0..Len(ParChoices) :
                /\ comps = <<ComponentOf(n1, i1, j1), ComponentOf(<<"a", "b">>, i2, j2)>>
                /\ model = Obj(<<1, 2>>)
    /\ meta \in MetaChoices("lsqfitter", 1)
    /\ lc \in {l \in LcChoices : l.unc_set /\ Len(l.time) = 2}
    /\ lsq_sol = NoResult
    /\ best_model = NoResult
    /\ loc = NoLoc
    /\ hist = [lc0 |-> lc, nlsq |-> 0, nevals |-> 0, nscale |-> 0, post |-> 0,
               last |-> "none", evals_before_lsq |-> 0]
    /\ call = NoCall

\* "all_params = ..." to "pmax = np.array(pmax)"
FlatBuild ==
    /\ pc = "flat"
    /\ pc' = "viewed"
    /\ loc' = [loc EXCEPT !.view = FlatView(comps, model.components)]
    /\ hist' = [hist EXCEPT !.last = "FlatBuild"]
    /\ UNCHANGED <<backend, meta, lc, comps, model, lsq_sol, best_model, call>>

NextFlat ==
    FlatBuild

SpecFlat ==
    InitFlat /\ [][NextFlat]_vars

-----------------------------------------------------------------------------
(* computeRMS on its own: the residuals, maxnbins and binstep it is called  *)
(* with are in call, its local arrays in loc.  rms, rmserr and stderr are   *)
(* kept squared (rms2, rmserr2, stderr2), as the uncertainties are.         *)

MaxData == 6
MaxBinCount == 4
MaxBinStep == 2

\* the residual sequences: every sequence of 1 and -1 up to MaxData long
DataChoices ==
    {Tup([k \in DOMAIN f |-> I(f[k])]) :
        f \in UNION {[1..n -> {-1, 1}] : n \in 1..MaxData}}

\* maxnbins: None (as rmsplot calls it) or a count
MaxnbinsChoices ==
    {[isNone |-> TRUE, val |-> 0]}
        \cup {[isNone |-> FALSE, val |-> m] : m \in 1..MaxBinCount}

\* np.ceil of a finite rational
QCeil(a) ==
    -((-a[1]) \div a[2])

\* np.arange(start, stop, step=step, dtype=int) for integers start and step
Arange(start, stop, step) ==
    LET len == QCeil(QDiv(QSub(stop, I(start)), I(step)))
    IN  [k \in 1..len |-> start + (k - 1) * step] \o <<>>

\* x.mean()
QMean(x) ==
    QDiv(QSum(x), I(Len(x)))

\* the mean of the squares taken for the square of the mean
SqMean(x) ==
    QSq(QMean(x))

\* np.mean(x ** 2)
MeanSq(x) ==
    QMean(Tup([k \in DOMAIN x |-> QSq(x[k])]))

\* data.std() ** 2
Var(x) ==
    MeanSq(Tup([k \in DOMAIN x |-> QSub(x[k], QMean(x))]))

\* a window sliding by one: data[j:j + b]
BinSliceSliding(n, j, b) ==
    [k \in 1..((IF j + b < n THEN j + b ELSE n) - (IF j < n THEN j ELSE n)) |->
        j + k - 1] \o <<>>

\* the (0-based) indices of the slice data[j * b:(j + 1) * b] of n points
BinSlice(n, j, b) ==
    [k \in 1..((IF (j + 1) * b < n THEN (j + 1) * b ELSE n)
                  - (IF j * b < n THEN j * b ELSE n)) |->
        j * b + k - 1] \o <<>>

\* data[idx] for a sequence of 0-based indices
Take(data, idx) ==
    [k \in DOMAIN idx |-> data[idx[k] + 1]] \o <<>>

\* the slices of the nb bins of size b
BinsOf(n, nb, b) ==
    [j \in 1..nb |-> BinSlice(n, j - 1, b)] \o <<>>

\* bindata of the inner loop over the bins
BindataOf(data, bins) ==
    [j \in DOMAIN bins |-> QMean(Take(data, bins[j]))] \o <<>>

NoRmsLoc ==
    [binsz |-> <<>>, nbins |-> <<>>, bins |-> <<>>, bindata |-> <<>>,
     rms2 |-> <<>>, rmserr2 |-> <<>>, stderr2 |-> <<>>, maxnbins |-> NaN, i |-> 0]

InitRMS ==
    /\ pc = "rms"
    /\ backend = "lsqfitter"
    /\ comps = <<>>
    /\ model = Obj(<<>>)
    /\ meta \in MetaChoices("lsqfitter", 1)
    /\ lc \in {l \in LcChoices : l.unc_set /\ Len(l.time) = 2}
    /\ lsq_sol = NoResult
    /\ best_model = NoResult
    /\ loc = NoRmsLoc
    /\ hist = [lc0 |-> lc, nlsq |-> 0, nevals |-> 0, nscale |-> 0, post |-> 0,
               last |-> "none", evals_before_lsq |-> 0]
    /\ \E d \in DataChoices, m \in MaxnbinsChoices, s \in 1..MaxBinStep :
          call = [fn |-> "computeRMS", data |-> d, maxnbins |-> m, binstep |-> s,
                  ret |-> <<>>]

\* "npts = data.size" to "rmserr = np.zeros(binsz.size)"
RmsStart ==
    /\ pc = "rms"
    /\ \E mx \in {IF call.maxnbins.isNone THEN Q(Len(call.data), 10)
                  ELSE I(call.maxnbins.val)} :
          \E bs \in {Arange(1, QAdd(mx, I(call.binstep)), call.binstep)} :
             loc' = [loc EXCEPT !.maxnbins = mx,
                                !.binsz = bs,
                                !.nbins = Tup([k \in DOMAIN bs |-> 0]),
                                !.bins = Tup([k \in DOMAIN bs |-> <<>>]),
                                !.bindata = Tup([k \in DOMAIN bs |-> <<>>]),
                                !.rms2 = Tup([k \in DOMAIN bs |-> I(0)]),
                                !.rmserr2 = Tup([k \in DOMAIN bs |-> I(0)]),
                                !.i = 0]
    /\ pc' = "binning"
    /\ hist' = [hist EXCEPT !.last = "RmsStart"]
    /\ UNCHANGED <<backend, meta, lc, comps, model, lsq_sol, best_model, call>>

\* one pass of "for i in range(binsz.size)"
RmsBin ==
    /\ pc = "binning"
    /\ loc.i < Len(loc.binsz)
    /\ \E i \in {loc.i + 1} :
          \E nb \in {Len(call.data) \div loc.binsz[i]} :
             \E bins \in {BinsOf(Len(call.data), nb, loc.binsz[i])} :
                \E bindata \in {BindataOf(call.data, bins)} :
                   \E r2 \in {SqrtSq(MeanSq(bindata))} :
                      loc' = [loc EXCEPT !.nbins[i] = nb,
                                         !.bins[i] = bins,
                                         !.bindata[i] = bindata,
                                         !.rms2[i] = r2,
                                         !.rmserr2[i] = QDiv(r2, SqrtSq(I(2 * nb))),
                                         !.i = i]
    /\ hist' = [hist EXCEPT !.last = "RmsBin"]
    /\ UNCHANGED <<pc, backend, meta, lc, comps, model, lsq_sol, best_model, call>>

\* "stderr = ..." and the return, isrmserr being False
RmsReturn ==
    /\ pc = "binning"
    /\ loc.i = Len(loc.binsz)
    /\ \E v \in {Var(call.data)} :
          \E se \in {Tup([k \in DOMAIN loc.binsz |->
                             QMul(QDiv(v, SqrtSq(I(loc.binsz[k]))),
                                  SqrtSq(QDiv(I(loc.nbins[k]),
                                              I(loc.nbins[k] - 1))))])} :
             /\ loc' = [loc EXCEPT !.stderr2 = se]
             /\ call' = [call EXCEPT !.ret = <<loc.rms2, se, loc.binsz>>]
    /\ pc' = "returned"
    /\ hist' = [hist EXCEPT !.last = "RmsReturn"]
    /\ UNCHANGED <<backend, meta, lc, comps, model, lsq_sol, best_model>>

NextRMS ==
    \/ RmsStart
    \/ RmsBin
    \/ RmsReturn

SpecRMS ==
    InitRMS /\ [][NextRMS]_vars

-----------------------------------------------------------------------------
(* The loop of Stage 4 over the spectroscopic channels (s4_genLC.py): the   *)
(* masked spectra and their uncertainties are in call, the binned light     *)
(* curves in loc.  A masked entry of a result is NaN; err is kept squared.   *)

NInt == 2
NWave == 3

\* spec.wave_1d: the wavelength of each column
Wave1d ==
    [w \in 1..NWave |-> w] \o <<>>

\* spec.optspec and spec.opterr: a value for each integration and column
OptspecOf(n, w) ==
    I(n + w)

OpterrOf(n, w) ==
    I(1 + ((n + w) % 2))

\* the mask of optspec_ma, which opterr_ma takes over: TRUE is masked
MaskChoices ==
    [1..NInt -> [1..NWave -> BOOLEAN]]

\* lc.wave_low and lc.wave_hi: one channel, or two that share a boundary
ChannelChoices ==
    {[wave_low |-> <<1>>, wave_hi |-> <<NWave + 1>>],
     [wave_low |-> <<1, 3>>, wave_hi |-> <<3, NWave + 1>>]}

\* index = np.where((spec.wave_1d >= wave_low[i]) * (spec.wave_1d < wave_hi[i]))[0]
ChannelIndex(lo, hi) ==
    {w \in 1..NWave : Wave1d[w] >= lo /\ Wave1d[w] < hi}

\* the unmasked columns of integration n among index
GoodOf(mask, n, index) ==
    {w \in index : ~mask[n][w]}

RECURSIVE QSumOver(_, _, _)
\* the sum of f[w] over the columns ws
QSumOver(f, ws, w) ==
    IF w > NWave THEN I(0)
    ELSE QAdd(IF w \in ws THEN f[w] ELSE I(0), QSumOver(f, ws, w + 1))

\* np.ma.MaskedArray.count(opterr_ma): the unmasked entries of the whole array
CountAll(mask) ==
    Cardinality({nw \in (1..NInt) \X (1..NWave) : ~mask[nw[1]][nw[2]]})

\* np.ma.mean(optspec_ma[:, index], axis=1) at integration n
MaMean(optspec, mask, n, index) ==
    IF GoodOf(mask, n, index) = {} THEN NaN
    ELSE QDiv(QSumOver(optspec[n], GoodOf(mask, n, index), 1),
              I(Cardinality(GoodOf(mask, n, index))))

\* np.ma.sum(opterr_ma[:, index] ** 2, axis=1) at integration n
MaSumSq(opterr, mask, n, index) ==
    IF GoodOf(mask, n, index) = {} THEN NaN
    ELSE QSumOver([w \in 1..NWave |-> QSq(opterr[n][w])], GoodOf(mask, n, index), 1)

\* (np.sqrt(...) / count) ** 2
ErrSq(sumsq, count) ==
    QDiv(SqrtSq(sumsq), QSq(I(count)))

NoS4Loc ==
    [i |-> 0, data |-> <<>>, err2 |-> <<>>]

InitS4 ==
    /\ pc = "channels"
    /\ backend = "lsqfitter"
    /\ comps = <<>>
    /\ model = Obj(<<>>)
    /\ meta \in MetaChoices("lsqfitter", 1)
    /\ lc \in {l \in LcChoices : l.unc_set /\ Len(l.time) = 2}
    /\ lsq_sol = NoResult
    /\ best_model = NoResult
    /\ loc = NoS4Loc
    /\ hist = [lc0 |-> lc, nlsq |-> 0, nevals |-> 0, nscale |-> 0, post |-> 0,
               last |-> "none", evals_before_lsq |-> 0]
    /\ \E mask \in MaskChoices, ch \in ChannelChoices :
          call = [fn |-> "genlc",
                  optspec |-> Tup([n \in 1..NInt |->
                                      Tup([w \in 1..NWave |-> OptspecOf(n, w)])]),
                  opterr |-> Tup([n \in 1..NInt |->
                                     Tup([w \in 1..NWave |-> OpterrOf(n, w)])]),
                  mask |-> Tup([n \in 1..NInt |-> Tup(mask[n])]),
                  wave_low |-> ch.wave_low, wave_hi |-> ch.wave_hi]

\* one pass of "for i in range(meta.nspecchan)", meta.sigma_clip being False
S4Channel ==
    /\ pc = "channels"
    /\ loc.i < Len(call.wave_low)
    /\ \E i \in {loc.i + 1} :
          \E index \in {ChannelIndex(call.wave_low[i], call.wave_hi[i])} :
             loc' = [loc EXCEPT
                       !.i = i,
                       !.data = Append(@, Tup([n \in 1..NInt |->
                                   MaMean(call.optspec, call.mask, n, index)])),
                       !.err2 = Append(@, Tup([n \in 1..NInt |->
                                   ErrSq(MaSumSq(call.opterr, call.mask, n, index),
                                         CountAll(call.mask))]))]
    /\ hist' = [hist EXCEPT !.last = "S4Channel"]
    /\ UNCHANGED <<pc, backend, meta, lc, comps, model, lsq_sol, best_model, call>>

\* the loop over the channels has ended
S4Done ==
    /\ pc = "channels"
    /\ loc.i = Len(call.wave_low)
    /\ pc' = "binned"
    /\ hist' = [hist EXCEPT !.last = "S4Done"]
    /\ UNCHANGED <<backend, meta, lc, comps, model, lsq_sol, best_model, loc, call>>

NextS4 ==
    \/ S4Channel
    \/ S4Done

SpecS4 ==
    InitS4 /\ [][NextS4]_vars

-----------------------------------------------------------------------------
(* Properties.                                                               *)

Samplers ==
    {"emceefitter", "dynestyfitter"}

\* The uncertainty (squared) the invocation starts from: the one given, or
\* flux where none was given
BaseUnc2 ==
    IF hist.lc0.unc_set THEN hist.lc0.unc2 ELSE hist.lc0.flux

\* unc2 once unc has been multiplied by sqrt(c)
TimesSqrt(u2, c) ==
    IF IsNaN(c) \/ QLt(c, I(0)) THEN NaN ELSE QMul(u2, c)

\* C1: in an invocation of emceefitter or dynestyfitter lc.time and lc.flux
\* never change; until the rescaling lc.unc is the given uncertainty (or
\* unset, or its sqrt(flux) default); from the rescaling on, which happens
\* once, lc.unc is that uncertainty times sqrt(chi2red), chi2red being the
\* reduced chi-square of the one lsqfitter run of the invocation.
UncRescaledOnce ==
    backend \in Samplers =>
        /\ lc.time = hist.lc0.time
        /\ lc.flux = hist.lc0.flux
        /\ hist.nscale \in {0, 1}
        /\ hist.nscale = 0 =>
              /\ pc \in {"start", "rescale"}
              /\ lc = hist.lc0 \/ (hist.nlsq = 1 /\ lc.unc_set /\ lc.unc2 = BaseUnc2)
        /\ hist.nscale = 1 =>
              /\ hist.nlsq = 1
              /\ lsq_sol.obj.has_fit
              /\ Len(lc.unc2) = Len(BaseUnc2)
              /\ \A i \in DOMAIN lc.unc2 :
                    lc.unc2[i] = TimesSqrt(BaseUnc2[i], lsq_sol.obj.chi2red)
        /\ pc \in {"mcmc", "emcee_fin", "nested", "dynesty_fin", "done"} =>
              hist.nscale = 1

\* A sampler has returned, having rescaled a finite uncertainty by a
\* factor other than 1
UncRescaledOnceWitness ==
    /\ backend \in Samplers
    /\ pc = "done"
    /\ hist.nscale = 1
    /\ IsFinite(lsq_sol.obj.chi2red)
    /\ lsq_sol.obj.chi2red \notin {I(0), I(1)}
    /\ lc.unc2 # BaseUnc2

\* C2 (as amended): in an invocation of emceefitter or dynestyfitter no
\* objective evaluation by the sampler comes before the lsqfitter run.
LsqBeforeSampling ==
    backend \in Samplers =>
        /\ hist.evals_before_lsq = 0
        /\ hist.nevals > 0 => hist.nlsq = 1 /\ lsq_sol.obj.has_fit

\* A sampler has evaluated its objective, after the lsqfitter run
LsqBeforeSamplingWitness ==
    /\ backend \in Samplers
    /\ hist.nevals > 0
    /\ hist.nlsq = 1
    /\ call.fn = "lnprob"

\* C2 (as stated): in an invocation of emceefitter, dynestyfitter or
\* lmfitter no objective evaluation comes before a lsqfitter run.
LsqBeforeEveryBackend ==
    backend \in Samplers \cup {"lmfitter"} =>
        /\ hist.evals_before_lsq = 0
        /\ hist.nevals > 0 => hist.nlsq >= 1

\* theta as passed has a component outside its bounds
OutOfBounds(theta, pmin, pmax) ==
    \E i \in DOMAIN theta : QLt(theta[i], pmin[i]) \/ QGt(theta[i], pmax[i])

\* C3: a call of ln_like with a theta that has a component below its lower
\* or above its upper bound returns -infinity, whatever the clipped theta
\* would give.
LnLikeRejectsOutOfBounds ==
    (call.fn = "ln_like" /\ OutOfBounds(call.theta_in, call.pmin, call.pmax)) =>
        /\ ~call.raised
        /\ call.val = LLNegInf

\* ln_like has returned -infinity for a theta it clipped
LnLikeRejectsWitness ==
    /\ call.fn = "ln_like"
    /\ OutOfBounds(call.theta_in, call.pmin, call.pmax)
    /\ call.theta_out # call.theta_in
    /\ ~OutOfBounds(call.theta_out, call.pmin, call.pmax)
    /\ call.val = LLNegInf

\* C4: lnprior returns 0 when every component lies in [pmin, pmax], the
\* bounds included, and the single value -infinity when one or more
\* components lie outside.
LnPriorZeroOrNegInf ==
    call.fn = "lnprior" =>
        /\ ~call.raised
        /\ (\A i \in DOMAIN call.theta_in :
               QLe(call.pmin[i], call.theta_in[i]) /\ QLe(call.theta_in[i], call.pmax[i]))
              => call.val = LLZero
        /\ OutOfBounds(call.theta_in, call.pmin, call.pmax) => call.val = LLNegInf

\* lnprior has returned 0 for a theta with a component on a finite bound
LnPriorOnBoundWitness ==
    /\ call.fn = "lnprior"
    /\ \E i \in DOMAIN call.theta_in :
          call.theta_in[i] = call.pmax[i] /\ IsFinite(call.pmax[i])
    /\ \E i \in DOMAIN call.theta_in :
          call.theta_in[i] = call.pmin[i] /\ IsFinite(call.pmin[i])
    /\ call.val = LLZero

\* C5: after ln_like the caller's theta is its projection on the box: a
\* component below pmin[i] is pmin[i], one above pmax[i] is pmax[i], any
\* other is as it was.
ClipIsProjection ==
    call.fn = "ln_like" =>
        /\ ~call.raised
        /\ Len(call.theta_out) = Len(call.theta_in)
        /\ \A i \in DOMAIN call.theta_in :
              call.theta_out[i] =
                 IF QLt(call.theta_in[i], call.pmin[i]) THEN call.pmin[i]
                 ELSE IF QGt(call.theta_in[i], call.pmax[i]) THEN call.pmax[i]
                 ELSE call.theta_in[i]

\* ln_like has raised one component to its lower and lowered another to its
\* upper bound
ClipIsProjectionWitness ==
    /\ call.fn = "ln_like"
    /\ \E i \in DOMAIN call.theta_in :
          QLt(call.theta_in[i], call.pmin[i]) /\ call.theta_out[i] = call.pmin[i]
    /\ \E i \in DOMAIN call.theta_in :
          QGt(call.theta_in[i], call.pmax[i]) /\ call.theta_out[i] = call.pmax[i]

\* C6: a call of lnprob does not raise for a theta outside the bounds, and
\* its value is -infinity exactly when the theta passed in has a component
\* outside its bounds.
LnProbNegInfIffOutOfBounds ==
    (call.fn = "lnprob" /\ Len(call.theta_in) = Len(call.pmin)) =>
        /\ OutOfBounds(call.theta_in, call.pmin, call.pmax) => ~call.raised
        /\ ~call.raised =>
              (call.val = LLNegInf
                  <=> OutOfBounds(call.theta_in, call.pmin, call.pmax))

IsFreeItem(item) ==
    item.par[2] = "free"

IsIndependentItem(item) ==
    item.par[2] = "independent"

\* The items of the composite, in component and then insertion order
AllItems ==
    AllParams(comps, model.components)

\* The free ones among them, in that order
FreeItems ==
    SelectSeq(AllItems, IsFreeItem)

\* C7: the flat view holds the free parameters, each occurrence once, in
\* component order and insertion order; freenames, freepars, pmin and pmax
\* are as long as that and entry i of each belongs to the i-th free
\* parameter; the names of the mapping are those of the independent
\* parameters; a fixed parameter is in neither.
FlatViewIsFreeOnly ==
    pc = "viewed" =>
        /\ Len(loc.view.freenames) = Len(FreeItems)
        /\ Len(loc.view.freepars) = Len(FreeItems)
        /\ Len(loc.view.pmin) = Len(FreeItems)
        /\ Len(loc.view.pmax) = Len(FreeItems)
        /\ \A i \in DOMAIN FreeItems :
              /\ loc.view.freenames[i] = FreeItems[i].name
              /\ loc.view.freepars[i] = FreeItems[i].par[1]
              /\ \/ loc.view.pmin[i] = NegInf
                 \/ Len(FreeItems[i].par) > 2 /\ loc.view.pmin[i] = FreeItems[i].par[3]
              /\ \/ loc.view.pmax[i] = PosInf
                 \/ Len(FreeItems[i].par) > 3 /\ loc.view.pmax[i] = FreeItems[i].par[4]
        /\ DictKeys(loc.view.indep_vars)
              = {AllItems[k].name :
                    k \in {n \in DOMAIN AllItems : IsIndependentItem(AllItems[n])}}
        /\ \A i \in DOMAIN loc.view.indep_vars :
              \E k \in DOMAIN AllItems :
                 /\ IsIndependentItem(AllItems[k])
                 /\ AllItems[k].name = loc.view.indep_vars[i].key
                 /\ AllItems[k].par[1] = loc.view.indep_vars[i].val

\* A view of two components that hold free, fixed and independent parameters,
\* the second component's free parameter following the first's
FlatViewWitness ==
    /\ pc = "viewed"
    /\ Len(model.components) = 2
    /\ Len(comps[1]) = 2
    /\ Len(comps[2]) = 2
    /\ Len(loc.view.freenames) = 2
    /\ loc.view.freenames[1] = comps[1][2].name
    /\ loc.view.freenames[2] = comps[2][1].name
    /\ comps[1][1].par[2] = "fixed"
    /\ comps[2][2].par[2] = "independent"
    /\ loc.view.indep_vars # <<>>

\* C8: for a free parameter a bound that is missing is -infinity (lower) or
\* +infinity (upper) and a bound that is given is used as given, also when
\* one of the two alone is given.
GivenBoundsUsed ==
    pc = "viewed" =>
        \A i \in DOMAIN FreeItems :
           /\ Len(FreeItems[i].par) = 2 =>
                 loc.view.pmin[i] = NegInf /\ loc.view.pmax[i] = PosInf
           /\ Len(FreeItems[i].par) = 3 =>
                 \/ loc.view.pmin[i] = FreeItems[i].par[3] /\ loc.view.pmax[i] = PosInf
                 \/ loc.view.pmin[i] = NegInf /\ loc.view.pmax[i] = FreeItems[i].par[3]
           /\ Len(FreeItems[i].par) = 4 =>
                 /\ loc.view.pmin[i] = FreeItems[i].par[3]
                 /\ loc.view.pmax[i] = FreeItems[i].par[4]

\* C9: once the backend has returned, an update of the input model leaves
\* the parameter values of best_model as they were, and an update of
\* best_model leaves those of the input model as they were.
BestModelIndependent ==
    [][(pc = "done" /\ hist'.post = hist.post + 1) =>
          /\ hist'.last = "UpdateInput" =>
                ParamsOf(comps', best_model.obj.components)
                   = ParamsOf(comps, best_model.obj.components)
          /\ hist'.last = "UpdateBest" =>
                ParamsOf(comps', model.components)
                   = ParamsOf(comps, model.components)]_vars

\* C10: when lsqfitter, emceefitter or dynestyfitter returns, every free
\* parameter of every component of best_model has a value that the best-fit
\* vector gives for its name.
BestModelHoldsFit ==
    (/\ pc = "done"
     /\ backend \in Samplers \cup {"lsqfitter"}
     /\ hist.post = 0) =>
        /\ best_model.ret = "model"
        /\ Len(loc.fit_params) = Len(loc.view.freenames)
        /\ \A c \in Range(best_model.obj.components) :
              \A j \in DOMAIN comps[c] :
                 comps[c][j].par[2] = "free" =>
                    \E i \in DOMAIN loc.view.freenames :
                       /\ loc.view.freenames[i] = comps[c][j].name
                       /\ loc.fit_params[i] = comps[c][j].par[1]

\* A backend has returned a model of two components whose best fit moved
\* the last free parameter, which the second component holds
BestModelHoldsFitWitness ==
    /\ pc = "done"
    /\ backend = "lsqfitter"
    /\ hist.post = 0
    /\ Len(best_model.obj.components) = 2
    /\ loc.fit_params[Len(loc.fit_params)] # loc.view.freepars[Len(loc.fit_params)]
    /\ \E j \in DOMAIN comps[best_model.obj.components[2]] :
          LET item == comps[best_model.obj.components[2]][j]
          IN  /\ item.par[2] = "free"
              /\ item.name = loc.view.freenames[Len(loc.fit_params)]
              /\ item.par[1] = loc.fit_params[Len(loc.fit_params)]

\* C11: when lsqfitter, emceefitter or dynestyfitter returns a model, the
\* object returned carries fit_params and chi2red, and they are the vector
\* and the reduced chi-square that this invocation computed.
ResultCarriesFit ==
    (/\ pc = "done"
     /\ backend \in Samplers \cup {"lsqfitter"}
     /\ best_model.ret = "model") =>
        /\ best_model.obj.has_fit
        /\ best_model.obj.fit_params = loc.fit_params
        /\ backend \in Samplers => best_model.obj.chi2red = loc.chi2red

\* The indices of the drawn positions that lie in the box
InBoxDrawn ==
    {i \in DOMAIN loc.pos : InBox(loc.pos[i], loc.view.pmin, loc.view.pmax)}

\* C12: in emceefitter the initial positions with a component outside
\* [pmin, pmax] are dropped and not drawn again, the positions kept are in
\* bounds and in the order drawn, and the sampler is built and run with as
\* many walkers as positions were kept, whatever that number, the run not
\* failing.
WalkersFilteredAndRun ==
    [][pc = "filter" =>
          /\ Len(loc'.pos) = Cardinality(InBoxDrawn)
          /\ \A j \in DOMAIN loc'.pos :
                /\ InBox(loc'.pos[j], loc.view.pmin, loc.view.pmax)
                /\ \E i \in InBoxDrawn :
                      /\ Cardinality({m \in InBoxDrawn : m <= i}) = j
                      /\ loc'.pos[j] = loc.pos[i]
          /\ pc' = "mcmc"
          /\ Len(loc'.chain) = Len(loc'.pos)]_vars

\* The object lsqfitter has returned
LsqReturned ==
    IF backend = "lsqfitter" THEN best_model.obj ELSE lsq_sol.obj

\* (residual / uncertainty) ^ 2 at point i, for the model as it stands
Chi2Term(i) ==
    QDiv(QSq(QSub(lc.flux[i], CompositeEval(comps, model.components, lc.time[i]))),
         lc.unc2[i])

\* C13: the chi2red that lsqfitter reports is chi2 / (n_points - n_free),
\* chi2 being the sum over the points of (residual / uncertainty)^2 at the
\* best-fit parameters and n_free the length of the flat vector.
LsqChi2RedFormula ==
    hist.last = "lsqfitter" =>
        /\ LsqReturned.has_fit
        /\ Len(LsqReturned.fit_params) = Len(loc.view.freepars)
        /\ LsqReturned.chi2red
              = QDiv(QSum(Tup([i \in DOMAIN lc.flux |-> Chi2Term(i)])),
                     I(Len(lc.flux) - Len(loc.view.freepars)))

\* lsqfitter has reported a finite, positive chi2red for more than one
\* degree of freedom
LsqChi2RedWitness ==
    /\ hist.last = "lsqfitter"
    /\ Len(lc.flux) - Len(loc.view.freepars) > 1
    /\ IsFinite(LsqReturned.chi2red)
    /\ QLt(I(0), LsqReturned.chi2red)

\* chi2 of the model as it stands
Chi2Now ==
    QSum(Tup([i \in DOMAIN lc.flux |-> Chi2Term(i)]))

\* C14: emceefitter and dynestyfitter compute chi2red = chi2 / n_points, so
\* that chi2 / (n_points - n_free), lsqfitter's quotient for the same
\* residuals and uncertainties, is theirs times n_points / (n_points - n_free).
SamplerChi2RedFormula ==
    (pc = "done" /\ backend \in Samplers /\ hist.post = 0) =>
        /\ loc.chi2red = QDiv(Chi2Now, I(Len(lc.flux)))
        /\ QDiv(Chi2Now, I(Len(lc.flux) - Len(loc.view.freepars)))
              = QMul(loc.chi2red,
                     QDiv(I(Len(lc.flux)),
                          I(Len(lc.flux) - Len(loc.view.freepars))))

\* A sampler has returned with a finite, positive chi2red
SamplerChi2RedWitness ==
    /\ pc = "done"
    /\ backend \in Samplers
    /\ hist.post = 0
    /\ Len(lc.flux) > Len(loc.view.freepars)
    /\ IsFinite(loc.chi2red)
    /\ QLt(I(0), loc.chi2red)

\* C15: in lsqfitter, emceefitter, dynestyfitter and lmfitter the
\* uncertainty the fit uses is sqrt(flux) when lc.unc was unset on entry and
\* the given one when it was set, and it is in place before the first
\* residual or objective evaluation.
FitUsesGivenOrDefaultUnc ==
    /\ hist.last = "lsqfitter" => lc.unc_set /\ lc.unc2 = BaseUnc2
    /\ (backend \in Samplers /\ hist.nevals > 0) => lc.unc_set
    /\ (backend = "lmfitter" /\ hist.last \in {"LmStart", "LmEval"}) =>
          /\ pc # "raised"
          /\ loc.uncertainty = BaseUnc2

\* C16: demcfitter returns None for every input without raising, and leaves
\* the light curve and the model, parameter values included, as they were.
DemcfitterReturnsNone ==
    [][(pc = "start" /\ backend = "demcfitter") =>
          /\ pc' = "done"
          /\ best_model'.ret = "None"
          /\ lc' = lc
          /\ model' = model
          /\ comps' = comps]_vars

DemcfitterReturnsNoneWitness ==
    /\ backend = "demcfitter"
    /\ hist.last = "demcfitter"
    /\ pc = "done"
    /\ best_model.ret = "None"
    /\ ~lc.unc_set
    /\ lc = hist.lc0

\* C17: for max_bin_count >= 1 and bin_step >= 1 computeRMS evaluates and
\* returns exactly the bin sizes 1, 1 + bin_step, 1 + 2 * bin_step, ..., each
\* of them at least 1 and at most max_bin_count.
BinSizesWithinMax ==
    (pc = "returned" /\ ~call.maxnbins.isNone) =>
        /\ loc.i = Len(loc.binsz)
        /\ call.ret[3] = loc.binsz
        /\ Len(loc.binsz) >= 1
        /\ \A k \in DOMAIN loc.binsz :
              /\ loc.binsz[k] = 1 + (k - 1) * call.binstep
              /\ loc.binsz[k] >= 1
              /\ loc.binsz[k] <= call.maxnbins.val

\* the indices of the residuals, counted from 0
DataIdx ==
    0..(Len(call.data) - 1)

\* C18: for each bin size b over n residuals computeRMS uses floor(n / b)
\* bins, bin j covers exactly the indices j * b .. (j + 1) * b - 1, the bins
\* are pairwise disjoint, and the last n mod b residuals are in no bin.
BinsPartitionDroppingTail ==
    pc \in {"binning", "returned"} =>
        \A i \in 1..loc.i :
           LET b == loc.binsz[i]
               n == Len(call.data)
           IN  /\ loc.nbins[i] * b <= n
               /\ n < (loc.nbins[i] + 1) * b
               /\ Len(loc.bins[i]) = loc.nbins[i]
               /\ Len(loc.bindata[i]) = loc.nbins[i]
               /\ \A j \in 1..loc.nbins[i] :
                     /\ Range(loc.bins[i][j]) = ((j - 1) * b)..(j * b - 1)
                     /\ Len(loc.bins[i][j]) = b
                     /\ \A k \in 1..(b - 1) :
                           loc.bins[i][j][k + 1] = loc.bins[i][j][k] + 1
                     /\ \A m \in 1..loc.nbins[i] :
                           m # j => Range(loc.bins[i][j]) \cap Range(loc.bins[i][m]) = {}
               /\ \A t \in DataIdx :
                     t >= n - (n % b) => \A j \in 1..loc.nbins[i] :
                                            t \notin Range(loc.bins[i][j])

BinsPartitionWitness ==
    /\ pc = "returned"
    /\ \E i \in 1..loc.i :
          /\ loc.binsz[i] = 2
          /\ Len(call.data) = 5
          /\ loc.nbins[i] = 2
          /\ loc.bins[i] = <<<<0, 1>>, <<2, 3>>>>

\* rms ** 2 of bin size b worked out from the residuals alone
RmsSqOf(b) ==
    LET nb == Len(call.data) \div b
    IN  QDiv(QSum(Tup([j \in 1..nb |->
                QSq(QDiv(QSum(Tup([k \in 1..b |-> call.data[(j - 1) * b + k]])),
                         I(b)))])),
             I(nb))

\* C19: for every bin size the rms returned is the square root of the mean of
\* the squared bin means; for the residuals [1,-1,1,-1,1,-1] with
\* max_bin_count = 3 and bin_step = 1 the bin sizes are 1, 2, 3 and rms is 1
\* for bin size 1 and 0 for bin size 2.
RmsIsRootMeanSquareOfBinMeans ==
    pc = "returned" =>
        /\ \A i \in DOMAIN loc.binsz :
              loc.binsz[i] <= Len(call.data) =>
                 /\ call.ret[1][i] = RmsSqOf(loc.binsz[i])
                 /\ QLe(I(0), call.ret[1][i])
        /\ (/\ call.data = <<I(1), I(-1), I(1), I(-1), I(1), I(-1)>>
            /\ call.maxnbins = [isNone |-> FALSE, val |-> 3]
            /\ call.binstep = 1) =>
              /\ call.ret[3] = <<1, 2, 3>>
              /\ call.ret[1][1] = I(1)
              /\ call.ret[1][2] = I(0)

RmsExampleWitness ==
    /\ pc = "returned"
    /\ call.data = <<I(1), I(-1), I(1), I(-1), I(1), I(-1)>>
    /\ call.maxnbins = [isNone |-> FALSE, val |-> 3]
    /\ call.binstep = 1
    /\ call.ret[3] = <<1, 2, 3>>
    /\ call.ret[1] = <<I(1), I(0), Q(1, 9)>>

\* C20: an evaluation of ln_like or lnprob is pure and reentrant: it leaves
\* the parameter values of the shared model and the caller's theta as they
\* were, so that interleaved evaluations each return the value of their own
\* vector.
ObjectiveIsPure ==
    [][(pc = "objective" /\ call'.fn \in {"ln_like", "lnprob"}) =>
          /\ comps' = comps
          /\ model' = model
          /\ call'.theta_out = call'.theta_in]_vars

\* the reduced chi-square of the invocation is undefined: no more points
\* than free parameters, or no free parameter
Chi2RedUndefined ==
    \/ Len(lc.flux) <= Len(loc.view.freepars)
    \/ Len(loc.view.freepars) = 0

\* C21: when the reduced chi-square is undefined (n_points <= n_free_params,
\* or no free parameter) the backend reports an error: it neither returns a
\* chi2red obtained by dividing by zero or by a negative number, nor rescales
\* lc.unc with the square root of one.
DegeneracyDetected ==
    (hist.last = "lsqfitter" /\ Chi2RedUndefined) =>
        /\ pc = "raised"
        /\ ~LsqReturned.has_fit
        /\ hist.nscale = 0

\* C22: after update(v, names), with names and v in flat-view order, the
\* flat view built again has the same names in the same order and the values
\* v, for every composite, those whose components share a name included.
UpdateThenViewRoundTrip ==
    hist.last = "lsqfitter" =>
        /\ FlatView(comps, model.components).freenames = loc.view.freenames
        /\ FlatView(comps, model.components).freepars = loc.fit_params

\* the steps of a walker's chain that are kept: step index >= nburn
KeptSteps ==
    (meta.run_nburn + 1)..meta.run_nsteps

\* C24: in emceefitter the flattened sample set is made of exactly the chain
\* entries with step index >= nburn of every retained walker, that is
\* effective_walkers * (nsteps - nburn) samples for nburn < nsteps, and the
\* point estimate of each free parameter is the median of its values there.
SamplesAreChainAfterBurnIn ==
    (pc = "done" /\ backend = "emceefitter" /\ meta.run_nburn < meta.run_nsteps) =>
        /\ Len(loc.chain) = Len(loc.pos)
        /\ \A w \in DOMAIN loc.chain : Len(loc.chain[w]) = meta.run_nsteps
        /\ Len(loc.samples) = Len(loc.pos) * (meta.run_nsteps - meta.run_nburn)
        /\ \A w \in DOMAIN loc.chain : \A t \in KeptSteps :
              loc.samples[(w - 1) * (meta.run_nsteps - meta.run_nburn)
                             + (t - meta.run_nburn)] = loc.chain[w][t]
        /\ \A j \in DOMAIN loc.view.freenames :
              loc.fit_params[j] =
                 Median(Tup([n \in DOMAIN loc.samples |-> loc.samples[n][j]]))

SamplesAfterBurnInWitness ==
    /\ pc = "done"
    /\ backend = "emceefitter"
    /\ Len(loc.pos) = 2
    /\ Len(loc.samples) = 2
    /\ loc.samples[1] # loc.samples[2]
    /\ loc.chain[1][1] # loc.chain[1][2]
    /\ Len(loc.view.freenames) = StepSizeLen

\* C25: in emceefitter the centre vector the initial walker positions are
\* drawn around equals, component by component in flat-view order, the
\* fit_params returned by the lsqfitter call of the same invocation.
WalkersCentredOnLsqFit ==
    (backend = "emceefitter" /\ hist.last = "EmceeSetup" /\ pc = "filter") =>
        /\ hist.nlsq = 1
        /\ loc.view.freepars = lsq_sol.obj.fit_params
        /\ \A w \in DOMAIN loc.pos : loc.pos[w] \in Draws(lsq_sol.obj.fit_params)

\* coordinates of a point of the unit cube
UnitValues ==
    {I(0), Q(1, 2), I(1)}

\* C26: ptform maps every point u of the unit cube to p with p[i] = pmin[i] +
\* (pmax[i] - pmin[i]) * u[i], which lies in [pmin[i], pmax[i]] and does not
\* decrease with u[i], for the bounds of every free parameter the flat view
\* gives, the defaults of a parameter without bounds included.
PtformIntoBoxMonotone ==
    /\ (backend = "dynestyfitter" /\ pc = "nested") =>
          \A i \in DOMAIN loc.view.pmin : \A u, v \in UnitValues :
             LET p == TransformUniform(u, loc.view.pmin[i], loc.view.pmax[i])
                 q == TransformUniform(v, loc.view.pmin[i], loc.view.pmax[i])
             IN  /\ QLe(loc.view.pmin[i], p)
                 /\ QLe(p, loc.view.pmax[i])
                 /\ QLe(u, v) => QLe(p, q)
    /\ (backend = "dynestyfitter" /\ hist.last = "DynestyEval") =>
          \A i \in DOMAIN call.theta_in :
             /\ QLe(loc.view.pmin[i], call.theta_in[i])
             /\ QLe(call.theta_in[i], loc.view.pmax[i])

\* C27: in Stage 4, for each channel and each integration the binned
\* uncertainty is the square root of the sum of the squared unmasked
\* uncertainties of the channel's wavelengths, divided by the number of
\* unmasked points that contribute to that channel for that integration.
BinnedErrDividedByGoodCount ==
    \A i \in 1..loc.i : \A n \in 1..NInt :
       LET good == {w \in 1..NWave :
                       /\ call.wave_low[i] <= w
                       /\ w < call.wave_hi[i]
                       /\ ~call.mask[n][w]}
       IN  good # {} =>
              loc.err2[i][n] =
                 QDiv(QSumOver([w \in 1..NWave |-> QSq(call.opterr[n][w])], good, 1),
                      QSq(I(Cardinality(good))))

\* C28: the dimension a sampling backend works in (the length of step_size
\* and ndim in emceefitter, meta.run_ndims in dynestyfitter) is the number
\* of free parameters of the flat view, for every model, so that walker
\* positions, samples and the vector of medians are parallel to freenames.
DimensionIsFreeCount ==
    /\ (backend = "emceefitter" /\ hist.last = "EmceeSetup") =>
          /\ StepSizeLen = Len(loc.view.freenames)
          /\ pc # "raised"
          /\ \A w \in DOMAIN loc.pos : Len(loc.pos[w]) = Len(loc.view.freenames)
    /\ (backend = "dynestyfitter" /\ pc \in {"nested", "dynesty_fin"}) =>
          /\ meta.run_ndims = Len(loc.view.freenames)
          /\ \A n \in DOMAIN loc.chain : Len(loc.chain[n]) = Len(loc.view.freenames)
    /\ (backend \in Samplers /\ pc = "done") =>
          /\ Len(loc.fit_params) = Len(loc.view.freenames)
          /\ \A n \in DOMAIN loc.samples :
                Len(loc.samples[n]) = Len(loc.view.freenames)

\* C29: for every bin size computeRMS evaluates, the default maxnbins =
\* n / 10 of rmsplot included, the number of bins floor(n / binsize) is at
\* least 2: no bin mean is taken over an empty set and the factor
\* sqrt(nbins / (nbins - 1)) never divides by zero.
AtLeastTwoBins ==
    /\ pc \in {"binning", "returned"} =>
          \A i \in 1..loc.i :
             /\ loc.nbins[i] >= 2
             /\ ~IsNaN(loc.rms2[i])
    /\ pc = "returned" =>
          \A i \in DOMAIN loc.stderr2 : IsFinite(loc.stderr2[i])

=============================================================================
